---- MODULE Spec2Model ----
(***************************************************************************)
(* OPDS client (calibre plugin): the catalog store OpdsBooksModel          *)
(* (model.py) and the navigation controller OpdsDialog (main.py).          *)
(*                                                                         *)
(* One foreground (GUI) thread runs the dialog's handlers; every           *)
(* _FirstPageWorker and _PagerWorker is a QThread whose run() executes in  *)
(* its own thread.  A signal emitted in run() reaches its slot through the *)
(* GUI thread's event queue (queued connection): `queue` below.  The GUI   *)
(* thread gives way to other threads where the code does: inside           *)
(* QApplication.processEvents() (mainpc.at = "pe"), inside the bounded     *)
(* QThread.wait() of _stop_pager and _cancel_first_worker ("waitPager",    *)
(* "waitFirst"), inside the modal format dialog's exec() ("dialog"), and   *)
(* between handlers ("idle").                                              *)
(*                                                                         *)
(* _setLoading's and _openCatalog's consecutive processEvents() calls are  *)
(* one yield point; only queued deliveries, no user input, are taken       *)
(* there.  A delivery queued for a slot that batchReady.disconnect() has   *)
(* removed is not made (PyQt drops it); feedReady and failed are never     *)
(* disconnected.                                                           *)
(*                                                                         *)
(* Not modelled: a malformed response to a continuation request, a first   *)
(* page with an entry opdsToMetadata raises on, widgets,                   *)
(* column data, the calibre REST timestamp enrichment (no feed of the      *)
(* fixture names a calibre server), authors and uuids of entries, a model  *)
(* constructed without a database.                                         *)
(***************************************************************************)
EXTENDS Naturals, Sequences, FiniteSets, TLC

\* ------------------------------------------------------------------ bounds
\* Threads alive at one time: running, referred to by the model, or with a
\* delivery still queued.
MaxWorkers == 3
\* User actions and failed requests in one run.
MaxEvents == 4
\* Catalog loads (sub-catalog, refresh, root) started in one run.
MaxLoads == 2
\* Links of an entry handed to opdsToMetadata on its own.
MaxLinks == 3
\* The retries parameter of a call of _parse_with_timeout on its own.
MaxRetries == 3
\* Library checks of one item.
MaxChecks == 6

\* ----------------------------------------------------------------- fixture
\* The remote server.  A URL is a string; "" is Python's None / ''.
NoUrl == ""

Link(type, rel, href) == [type |-> type, rel |-> rel, href |-> href]
Line(prefix, items) == [prefix |-> prefix, items |-> items]
Entry(title, summary, links) == [title |-> title, summary |-> summary, links |-> links]

\* A summary is its sequence of lines; a line is its prefix ("TAGS: " or
\* anything else) and the comma-separated items that follow it.
TagsNews == << Line("TAGS: ", <<"Fiction", "News">>) >>
TagsNone == << >>
TagsTwice == << Line("TAGS: ", <<"Fiction">>), Line("", <<"about">>),
               Line("TAGS: ", <<"News">>) >>

\* Feeds by URL: the entries, the feed-level links, the server header
\* ("" when the response carries none).  Bad is what feedparser.parse makes
\* of a response body that is not a feed: no exception, a result (with bozo
\* set) that has no entries and no links.
Feeds ==
  [ A  |-> [ entries |-> << Entry("a1", TagsNone, << Link("image/jpeg", "", "a1.jpg"),
                                                     Link("application/pdf", "", "a1.pdf"),
                                                     Link("application/epub+zip", "", "a1.epub") >>),
                            Entry("sB", TagsNone, << Link("application/atom+xml", "", "B") >>) >>,
             links   |-> << Link("application/atom+xml", "self", "A"),
                            Link("application/atom+xml", "next", "A2") >>,
             server  |-> "" ],
    A2 |-> [ entries |-> << Entry("a2", TagsNews, << Link("application/pdf", "", "a2.pdf") >>) >>,
             links   |-> << Link("application/atom+xml", "next", "A3") >>,
             server  |-> "" ],
    A3 |-> [ entries |-> << Entry("a3", TagsNone, << Link("application/epub+zip", "", "a3.epub") >>),
                            Entry("a4", TagsNone, << Link("application/pdf", "", "a4.pdf") >>) >>,
             links   |-> << Link("application/atom+xml", "self", "A3") >>,
             server  |-> "" ],
    B  |-> [ entries |-> << Entry("b1", TagsNews, << Link("application/pdf", "", "b1.pdf") >>),
                            Entry("b2", TagsNone, << Link("application/epub+zip", "", "b2.epub") >>) >>,
             links   |-> << Link("application/atom+xml", "self", "B") >>,
             server  |-> "apache" ],
    Bad |-> [ entries |-> << >>, links |-> << >>, server |-> "" ] ]

\* The root feed: downloadOpdsRootCatalog keeps title -> first link.
RootEntries == << [title |-> "A", href |-> "A"] >>
RootServer == "nginx"

\* The local library: titles db.has_book answers True for.  It would answer
\* True for the sub-catalog entries "A" and "sB" as well.
InLibrary == {"a1", "a3", "b2", "A", "sB"}

\* Titles db.has_book raises an exception for.
LibraryRaises == {"a4"}

\* No entry, no result; no call; no item.
NoEntry == [title |-> NoUrl]
NoFetch == [pc |-> "none"]
NoCheck == [item |-> "none"]

\* The pages of each catalog's chain, in order (used by the properties only).
Chain == [A |-> <<"A", "A2", "A3">>, B |-> <<"B">>]

\* --------------------------------------------------------------- variables
VARIABLES
  books,              \* model.books          (allItems)
  filteredBooks,      \* model.filteredBooks  (visibleItems)
  filterNews,         \* model.filterBooksThatAreNewspapers
  filterLib,          \* model.filterBooksThatAreAlreadyInLibrary
  serverHeader,       \* model.serverHeader
  pager,              \* model._pager: a worker id, 0 for None
  firstWorker,        \* model._first_worker: a worker id, 0 for None
  workers,            \* the threads, by slot
  queue,              \* the GUI thread's queue of signal deliveries
  catalogHistory,     \* dialog.catalogHistory (navigation stack)
  currentCatalogUrl,  \* dialog.currentCatalogUrl
  breadcrumbs,        \* dialog.breadcrumbs
  isLoading,          \* dialog._isLoading
  errorText,          \* dialog.errorLabel's text
  mainpc,             \* where the GUI thread is
  nevents,            \* user actions and failed requests so far
  nloads,             \* catalog loads started so far
  entry,              \* opdsToMetadata on its own: the parsed entry
  metadata,           \* opdsToMetadata on its own: the result
  fetch,              \* _parse_with_timeout on its own: one call
  check               \* _isBookInLibrary on its own: one item and the library

vars == << books, filteredBooks, filterNews, filterLib, serverHeader, pager,
           firstWorker, workers, queue, catalogHistory, currentCatalogUrl,
           breadcrumbs, isLoading, errorText, mainpc, nevents, nloads,
           entry, metadata, fetch, check >>

storeVars == << books, filteredBooks, filterNews, filterLib, serverHeader >>
dialogVars == << catalogHistory, currentCatalogUrl, breadcrumbs, isLoading, errorText >>
unitVars == << entry, metadata, fetch, check >>
programVars == << storeVars, dialogVars, pager, firstWorker, workers, queue,
                 mainpc, nevents, nloads >>

\* ------------------------------------------------------------ pure helpers
ImageTypes == {"image/jpeg", "image/png"}                \* type.startswith('image/')
AtomTypes == {"application/atom+xml",
              "application/atom+xml;profile=opds-catalog"} \* startswith('application/atom+xml')
EpubType == "application/epub+zip"

\* urllib.parse.urljoin(base, url): every href of the fixture is absolute, and
\* an absolute url joins to itself; an empty url stays empty.
_absolutize(url, base) == IF url = NoUrl THEN url ELSE url

\* Metadata as the code reads it: catalogUrl = NoUrl stands for "the object has
\* no catalogUrl attribute".
Metadata(title, tags, links, catalogUrl) ==
  [title |-> title, tags |-> tags, links |-> links, catalogUrl |-> catalogUrl]

\* for summaryline in summarylines: if startswith('TAGS: '): tags = ...split(',')
RECURSIVE TagsOf(_, _)
TagsOf(lines, tags) ==
  IF lines = << >> THEN tags
  ELSE TagsOf(Tail(lines),
              IF Head(lines).prefix = "TAGS: " THEN Head(lines).items ELSE tags)

\* Python's None: catalogUrl = None, as against '' (the href of a link
\* without one); an item without the attribute is_already_in_library.
None == "<None>"

\* for link in links: the dispatch on the link's type; the result is
\* [urls |-> bookDownloadUrls, cat |-> catalogUrl].
RECURSIVE ScanLinks(_, _, _)
ScanLinks(links, base, acc) ==
  IF links = << >> THEN acc
  ELSE LET link == Head(links)
           url  == _absolutize(link.href, base)
       IN  ScanLinks(Tail(links), base,
             IF link.type \in ImageTypes THEN acc
             ELSE IF link.type \in AtomTypes
               THEN (IF acc.cat = None THEN [acc EXCEPT !.cat = url] ELSE acc)
             ELSE IF link.type = EpubType
               THEN [acc EXCEPT !.urls = <<url>> \o acc.urls]
             ELSE [acc EXCEPT !.urls = Append(acc.urls, url)])

opdsToMetadata(e, base) ==
  LET tags == TagsOf(e.summary, << >>)
      scan == ScanLinks(e.links, base, [urls |-> << >>, cat |-> None])
  IN  IF scan.urls # << >> THEN Metadata(e.title, tags, scan.urls, NoUrl)
      ELSE IF scan.cat \notin {None, NoUrl}
        THEN Metadata(e.title, tags, << >>, scan.cat)
      ELSE Metadata(e.title, tags, << >>, NoUrl)

makeMetadataFromParsedOpds(entries, base) ==
  [i \in 1..Len(entries) |-> opdsToMetadata(entries[i], base)]

\* A lookup that takes the first feed-level link with an href, whatever its rel.
findNextUrl_anyRel(links, base) ==
  IF links = << >> THEN NoUrl
  ELSE IF Head(links).href # NoUrl
    THEN _absolutize(Head(links).href, base)
  ELSE NoUrl

\* The first feed-level link with rel == 'next' and an href, absolutized.
RECURSIVE findNextUrl(_, _)
findNextUrl(links, base) ==
  IF links = << >> THEN NoUrl
  ELSE IF Head(links).rel = "next" /\ Head(links).href # NoUrl
    THEN _absolutize(Head(links).href, base)
  ELSE findNextUrl(Tail(links), base)

\* An entry's updated element: the date and time, and what follows them.
Timestamp(body, suffix) == [body |-> body, suffix |-> suffix]

\* The endings re.sub('((\.[0-9]+)?\+0[0-9]:00|Z)$', '', rawTimestamp) removes.
StrippedSuffixes == {"Z", "+00:00", "+02:00", ".5+01:00"}

\* The updated elements a server sends: no zone, UTC, an offset east or west
\* of Greenwich, fractional seconds.
Updated ==
  { Timestamp("2024-01-01T00:00:00", suffix) :
      suffix \in {"", "Z", "+00:00", "+02:00", ".5+01:00", "-05:00", ".5Z", "+10:00"} }

parsableTimestamp(ts) ==
  IF ts.suffix \in StrippedSuffixes THEN [ts EXCEPT !.suffix = ""]
  ELSE IF ts.suffix = ".5Z" THEN [ts EXCEPT !.suffix = ".5"]
  ELSE ts

\* datetime.strptime(parsableTimestamp, '%Y-%m-%dT%H:%M:%S') raises ValueError
\* when anything is left after the seconds.
strptimeRaises(ts) == parsableTimestamp(ts).suffix # ""

\* loadSubcatalogs: one virtual record per root entry.
VirtualBooks(catalogs) ==
  [i \in 1..Len(catalogs) |-> Metadata(catalogs[i].title, << >>, << >>, catalogs[i].href)]

\* db.has_book(book) of the local library (its contents do not change in a
\* session, so the per-item cache is_already_in_library holds has_book's answer).
has_book(book) == book.title \in InLibrary

InTags(tag, tags) == \E i \in 1..Len(tags) : tags[i] = tag

isFilteredNews(book, fNews) == fNews /\ InTags("News", book.tags)

\* A library check that asks db.has_book for every item, sub-catalogs too.
_isBookInLibrary_unguarded(book) == has_book(book)

\* What a call of db.has_book(book) does: "yes", "no" or "raises".
Answer(book) ==
  IF book.title \in LibraryRaises THEN "raises"
  ELSE IF has_book(book) THEN "yes" ELSE "no"

\* A library check that takes an exception of db.has_book for "in the library".
LibraryCheck_raisedMeansPresent(isCatalog, cached, answer) ==
  IF isCatalog THEN [verdict |-> FALSE, cached |-> cached, asked |-> FALSE]
  ELSE IF cached # None
    THEN [verdict |-> (cached = "True"), cached |-> cached, asked |-> FALSE]
  ELSE [verdict |-> (answer # "no"),
        cached  |-> IF answer # "no" THEN "True" ELSE "False",
        asked   |-> TRUE]

\* A library check that never looks at the cached attribute.
LibraryCheck_uncached(isCatalog, cached, answer) ==
  IF isCatalog THEN [verdict |-> FALSE, cached |-> cached, asked |-> FALSE]
  ELSE [verdict |-> (answer = "yes"),
        cached  |-> IF answer = "yes" THEN "True" ELSE "False",
        asked   |-> TRUE]

\* _isBookInLibrary on an item that is a sub-catalog or not and whose attribute
\* is_already_in_library is cached (None, "True" or "False"), while a call of
\* db.has_book would end as answer says: the verdict returned, the attribute
\* afterwards, and whether db.has_book was called.
LibraryCheck(isCatalog, cached, answer) ==
  IF isCatalog THEN [verdict |-> FALSE, cached |-> cached, asked |-> FALSE]
  ELSE IF cached # None
    THEN [verdict |-> (cached = "True"), cached |-> cached, asked |-> FALSE]
  ELSE [verdict |-> (answer = "yes"),
        cached  |-> IF answer = "yes" THEN "True" ELSE "False",
        asked   |-> TRUE]

\* _isBookInLibrary(book): the library of a session does not change, so the
\* verdict for an item is the one of its first check.
_isBookInLibrary(book) ==
  LibraryCheck(book.catalogUrl # NoUrl, None, Answer(book)).verdict

isFilteredAlreadyInLibrary(book, fLib) == fLib /\ _isBookInLibrary(book)

Accepted(book, fNews, fLib) ==
  (~ isFilteredNews(book, fNews)) /\ (~ isFilteredAlreadyInLibrary(book, fLib))

\* filterBooks: the books that pass both filters, in order.
filterBooks(bs, fNews, fLib) ==
  LET Test(b) == Accepted(b, fNews, fLib) IN SelectSeq(bs, Test)

\* The store's lists and flags, as one value.
Store == [books |-> books, visible |-> filteredBooks,
          fNews |-> filterNews, fLib |-> filterLib]

\* A setter that flips the flag whatever the value passed.
AfterSetNews_toggle(store, value) ==
  [store EXCEPT !.fNews = ~ store.fNews,
                !.visible = filterBooks(store.books, ~ store.fNews, store.fLib)]

\* setFilterBooksThatAreNewspapers(value) on a store: if value != flag, set
\* the flag and filterBooks(); else nothing.
AfterSetNews(store, value) ==
  IF value # store.fNews
    THEN [store EXCEPT !.fNews = value,
                       !.visible = filterBooks(store.books, value, store.fLib)]
    ELSE store

\* setFilterBooksThatAreAlreadyInLibrary(value) on a store.
AfterSetLib(store, value) ==
  IF value # store.fLib
    THEN [store EXCEPT !.fLib = value,
                       !.visible = filterBooks(store.books, store.fNews, value)]
    ELSE store

\* ----------------------------------------------------------------- threads
Retries == 1            \* _parse_with_timeout(url, timeout, retries=1)

NoWorker == [kind |-> "none", pc |-> "done", url |-> NoUrl, attempt |-> 0,
             interrupted |-> FALSE, connected |-> FALSE,
             cancelled |-> "no", nfetch |-> 0, nemit |-> 0, failures |-> 0,
             pageFailed |-> "", stale |-> FALSE, uncaught |-> FALSE]

\* A started thread.  interrupted: requestInterruption() was called;
\* connected: batchReady is connected to _append_batch.  History fields, read
\* by the properties only: cancelled ("no", or the handler, "open", "back" or
\* "root", whose _stop_pager / _cancel_first_worker met this thread), nfetch
\* (HTTP requests issued), nemit (batches or feeds emitted), failures
\* (exceptions met: failed requests and InterruptedError), pageFailed
\* (the message pageFailed was emitted with, "" when it was not), stale (the
\* root catalog has been reloaded since the thread was started), uncaught
\* (run() was left by an exception that nothing caught).
NewWorker(kind, url) ==
  [kind |-> kind, pc |-> "attempt",
   url |-> url, attempt |-> 0, interrupted |-> FALSE,
   connected |-> (kind = "pager"), cancelled |-> "no",
   nfetch |-> 0, nemit |-> 0, failures |-> 0, pageFailed |-> "", stale |-> FALSE,
   uncaught |-> FALSE]

Ids == 1..MaxWorkers
isRunning(w) == workers[w].pc # "done"

Event(kind, w, url) == [kind |-> kind, w |-> w, url |-> url]

\* A thread that has finished, that the model no longer refers to (p, f: the
\* model's _pager and _first_worker) and that has no delivery queued in q plays
\* no part any more (pager.deleteLater()): its slot is free again.
Collect(ws, p, f, q) ==
  [w \in Ids |->
     IF /\ ws[w].kind # "none" /\ ws[w].pc = "done"
        /\ w # p /\ w # f
        /\ \A i \in 1..Len(q) : q[i].w # w
       THEN NoWorker ELSE ws[w]]

HasFree(ws) == \E w \in Ids : ws[w].kind = "none"
FreeSlot(ws) == CHOOSE w \in Ids :
                  ws[w].kind = "none" /\ \A v \in 1..(w - 1) : ws[v].kind # "none"

\* _is_interrupted(): reads the model's current references, whichever thread
\* asks.  QThread.isInterruptionRequested() is False for a finished thread.
_is_interrupted ==
  \/ pager # 0 /\ isRunning(pager) /\ workers[pager].interrupted
  \/ firstWorker # 0 /\ isRunning(firstWorker) /\ workers[firstWorker].interrupted

\* ------------------------------------------------------------- worker steps
\* except Exception in run(): a pager emits pageFailed, which no slot is
\* connected to (the dialog connects pageLoaded only); a first-page worker
\* emits failed, which is connected to on_error; neither when interrupted.
Raised(w, q) ==
  IF workers[w].kind = "first" /\ ~ workers[w].interrupted
    THEN Append(q, Event("failed", w, workers[w].url))
    ELSE q

\* self._model.pageFailed.emit(str(exc)), unless interrupted.
Emitted(w, exc) ==
  IF workers[w].kind = "pager" /\ ~ workers[w].interrupted THEN exc ELSE ""

\* One step of thread w: the thread's record and the queue after it.
Step(w, rec, q) ==
  /\ queue' = q
  /\ workers' = Collect([workers EXCEPT ![w] = rec], pager, firstWorker, q)
  /\ UNCHANGED << storeVars, dialogVars, pager, firstWorker, mainpc >>

\* One more user action or failed request, while the run allows it.
Event1 == nevents < MaxEvents /\ nevents' = nevents + 1 /\ UNCHANGED nloads

\* One more catalog load started by the user.
Load1 ==
  /\ nevents < MaxEvents /\ nevents' = nevents + 1
  /\ nloads < MaxLoads /\ nloads' = nloads + 1

\* The next HTTP attempt.  For a pager's first attempt at a page, first the
\* loop condition of run(): while url and not self.isInterruptionRequested().
\* Then _parse_with_timeout's loop head: raise InterruptedError when
\* _is_interrupted(), else issue the request (urlopen).  An attempt after the
\* first follows time.sleep(backoff).
Attempt(w) ==
  /\ UNCHANGED unitVars
  /\ workers[w].kind # "none" /\ workers[w].pc = "attempt"
  /\ UNCHANGED << nevents, nloads >>
  /\ IF /\ workers[w].kind = "pager" /\ workers[w].attempt = 0
        /\ (workers[w].url = NoUrl \/ workers[w].interrupted)
       THEN Step(w, [workers[w] EXCEPT !.pc = "done"], queue)
       ELSE IF _is_interrupted
         THEN Step(w, [workers[w] EXCEPT !.pc = "done", !.failures = @ + 1,
                                         !.pageFailed = Emitted(w, "InterruptedError")],
                   Raised(w, queue))
         ELSE Step(w, [workers[w] EXCEPT !.pc = "inflight", !.nfetch = @ + 1], queue)

\* A loop that allows one attempt more than retries + 1.
LastAttempt_oneMore(attempt, retries) == attempt >= retries + 1

\* attempts = retries + 1 ... if attempt >= attempts - 1: break
LastAttempt(attempt, retries) == attempt >= (retries + 1) - 1

\* urlopen raises: after the last attempt the exception leaves
\* _parse_with_timeout, before it time.sleep(backoff) and the next attempt.
FetchFail(w) ==
  /\ UNCHANGED unitVars
  /\ workers[w].kind # "none" /\ workers[w].pc = "inflight"
  /\ Event1
  /\ IF LastAttempt(workers[w].attempt, Retries)
       THEN Step(w, [workers[w] EXCEPT !.pc = "done", !.failures = @ + 1,
                                       !.pageFailed = Emitted(w, "URLError")],
                 Raised(w, queue))
       ELSE Step(w, [workers[w] EXCEPT !.pc = "attempt", !.attempt = @ + 1,
                                       !.failures = @ + 1], queue)

\* _PagerWorker.run, the fetch returns a feed: build the batch, break when
\* interrupted, else batchReady.emit(books) and url = findNextUrl(...).  An
\* emit reaches _append_batch only while the signal is connected.
PagerFetched(w) ==
  /\ UNCHANGED unitVars
  /\ workers[w].kind = "pager" /\ workers[w].pc = "inflight"
  /\ UNCHANGED << nevents, nloads >>
  /\ IF workers[w].interrupted
       THEN Step(w, [workers[w] EXCEPT !.pc = "done"], queue)
       ELSE Step(w, [workers[w] EXCEPT
                       !.pc = "attempt", !.attempt = 0, !.nemit = @ + 1,
                       !.url = findNextUrl(Feeds[workers[w].url].links, workers[w].url)],
                 IF workers[w].connected
                   THEN Append(queue, Event("batch", w, workers[w].url))
                   ELSE queue)

\* _PagerWorker.run, the fetch returns a feed one of whose entries has an
\* updated element strptime does not take: makeMetadataFromParsedOpds, called
\* outside the try of run(), raises ValueError and run() is left by it.
PagerFetchedRaising(w) ==
  /\ UNCHANGED unitVars
  /\ workers[w].kind = "pager" /\ workers[w].pc = "inflight"
  /\ \E ts \in Updated : strptimeRaises(ts)
  /\ Event1
  /\ Step(w, [workers[w] EXCEPT !.pc = "done", !.failures = @ + 1,
                                !.uncaught = TRUE], queue)

\* _FirstPageWorker.run, the fetch returns a feed:
\* if self.isInterruptionRequested(): return
FirstFetched(w) ==
  /\ UNCHANGED unitVars
  /\ workers[w].kind = "first" /\ workers[w].pc = "inflight"
  /\ UNCHANGED << nevents, nloads >>
  /\ Step(w, [workers[w] EXCEPT !.pc = IF workers[w].interrupted
                                         THEN "done" ELSE "emit"], queue)

\* _FirstPageWorker.run, the response body is not a feed: feedparser.parse(data)
\* returns all the same, and run() goes on as after any fetch.
FirstFetchedMalformed(w) ==
  /\ UNCHANGED unitVars
  /\ workers[w].kind = "first" /\ workers[w].pc = "inflight"
  /\ Event1
  /\ Step(w, [workers[w] EXCEPT !.pc = IF workers[w].interrupted
                                         THEN "done" ELSE "emitBad"], queue)

\* self.feedReady.emit(feed): connected to handle_feed, never disconnected.
FirstEmit(w) ==
  /\ UNCHANGED unitVars
  /\ workers[w].kind = "first" /\ workers[w].pc \in {"emit", "emitBad"}
  /\ UNCHANGED << nevents, nloads >>
  /\ Step(w, [workers[w] EXCEPT !.pc = "done", !.nemit = @ + 1],
          Append(queue, Event("feed", w, IF workers[w].pc = "emitBad"
                                           THEN "Bad" ELSE workers[w].url)))

\* ---------------------------------------------------------- GUI thread
Idle == [at |-> "idle", op |-> "none", arg |-> NoUrl]
At(at, op, arg) == [at |-> at, op |-> op, arg |-> arg]

\* History fields of a snapshot, read by the properties only: the visible list
\* and the filter flags at the moment of the descent.
Snapshot ==
  [books |-> books, header |-> serverHeader, url |-> currentCatalogUrl,
   crumbs |-> breadcrumbs,
   visible |-> filteredBooks, fNews |-> filterNews, fLib |-> filterLib]

\* urllib.parse.urljoin(base, url) of an absolute url.
_resolveUrl(url) == _absolutize(url, currentCatalogUrl)

\* requestInterruption() and, for a pager, batchReady.disconnect(_append_batch).
Interrupted(ws, w, by) ==
  [ws EXCEPT ![w].interrupted = TRUE, ![w].connected = FALSE, ![w].cancelled = by]

\* _stop_pager / _cancel_first_worker on a thread that is not running: only
\* the reference is dropped.
Dropped(ws, w, by) == IF w # 0 THEN [ws EXCEPT ![w].cancelled = by] ELSE ws

\* A disconnect that leaves the deliveries already queued in the queue.
Purged_none(q, w) == q

\* A delivery queued for a slot that has been disconnected is not made.
Purged(q, w) ==
  LET Keep(e) == ~ (e.kind = "batch" /\ e.w = w) IN SelectSeq(q, Keep)

\* if pager and pager.isRunning() / if worker and worker.isRunning()
PagerRunning == pager # 0 /\ isRunning(pager)
FirstRunning == firstWorker # 0 /\ isRunning(firstWorker)

\* _stop_pager up to pager.wait(500), the pager running.
StopPagerWait(ws, f, op, arg) ==
  /\ workers' = Collect(Interrupted(ws, pager, op), pager, f, Purged(queue, pager))
  /\ queue' = Purged(queue, pager)
  /\ mainpc' = At("waitPager", op, arg)
  /\ pager' = pager

\* downloadOpdsCatalogAsync, after both cancellations: start the worker.
StartFirstPage(ws, url) ==
  /\ HasFree(ws)
  /\ workers' = [ws EXCEPT ![FreeSlot(ws)] = NewWorker("first", url)]
  /\ firstWorker' = FreeSlot(ws)
  /\ mainpc' = Idle

\* downloadOpdsCatalogAsync from _cancel_first_worker on; p is _pager by then.
_cancel_first_worker_open(ws, p, url) ==
  IF FirstRunning
    THEN /\ workers' = Collect(Interrupted(ws, firstWorker, "open"), p, firstWorker, queue)
         /\ mainpc' = At("waitFirst", "open", url)
         /\ firstWorker' = firstWorker
    ELSE StartFirstPage(Collect(Dropped(ws, firstWorker, "open"), p, 0, queue), url)

\* A downloadBook that adds the book's title to the breadcrumb trail.
downloadBook_crumb(book) ==
  /\ mainpc' = IF Len(book.links) > 0 THEN At("dialog", "book", NoUrl) ELSE mainpc
  /\ breadcrumbs' = Append(breadcrumbs, book.title)
  /\ UNCHANGED << catalogHistory, currentCatalogUrl, isLoading, errorText,
                  nevents, nloads >>

\* downloadBook(book): with links, the modal SelectFormatDialog is opened and
\* dialog.exec() runs its event loop; without links nothing happens.
downloadBook(book) ==
  /\ mainpc' = IF Len(book.links) > 0 THEN At("dialog", "book", NoUrl) ELSE mainpc
  /\ UNCHANGED << dialogVars, nevents, nloads >>

\* _activateCurrentItem on the visible row i: a sub-catalog pushes the
\* snapshot and the breadcrumb and enters _openCatalog up to its
\* processEvents(); a book opens the format dialog (downloadBook).
_activateCurrentItem(i) ==
  /\ UNCHANGED unitVars
  /\ mainpc = Idle
  /\ i \in 1..Len(filteredBooks)
  /\ IF filteredBooks[i].catalogUrl # NoUrl
       THEN /\ Load1
            /\ catalogHistory' = Append(catalogHistory, Snapshot)
            /\ breadcrumbs' = Append(breadcrumbs, filteredBooks[i].title)
            /\ isLoading' = TRUE
            /\ errorText' = ""
            /\ mainpc' = At("pe", "open", filteredBooks[i].catalogUrl)
            /\ UNCHANGED currentCatalogUrl
       ELSE downloadBook(filteredBooks[i])
  /\ UNCHANGED << storeVars, pager, firstWorker, workers, queue >>

\* dialog.exec() returns: the format dialog is accepted (the download is
\* handed to calibre's gui.download_ebook) or rejected.
SelectFormatDialogClosed ==
  /\ UNCHANGED unitVars
  /\ mainpc.at = "dialog"
  /\ mainpc' = Idle
  /\ UNCHANGED << storeVars, dialogVars, pager, firstWorker, workers, queue,
                  nevents, nloads >>

\* _openCatalog after processEvents(): set the url, then
\* downloadOpdsCatalogAsync: _stop_pager, _cancel_first_worker, start.
_openCatalog ==
  /\ UNCHANGED unitVars
  /\ UNCHANGED << nevents, nloads >>
  /\ mainpc.at = "pe" /\ mainpc.op \in {"open", "refresh"}
  /\ currentCatalogUrl' = _resolveUrl(mainpc.arg)
  /\ IF PagerRunning
       THEN /\ StopPagerWait(workers, firstWorker, "open", _resolveUrl(mainpc.arg))
            /\ firstWorker' = firstWorker
       ELSE /\ pager' = 0
            /\ queue' = queue
            /\ _cancel_first_worker_open(Dropped(workers, pager, "open"), 0,
                                         _resolveUrl(mainpc.arg))
  /\ UNCHANGED << storeVars, catalogHistory, breadcrumbs, isLoading, errorText >>

\* _stop_pager after pager.wait(500): self._pager = None, then on.
OpenAfterWaitPager ==
  /\ UNCHANGED unitVars
  /\ UNCHANGED << nevents, nloads >>
  /\ mainpc.at = "waitPager" /\ mainpc.op = "open"
  /\ pager' = 0
  /\ _cancel_first_worker_open(workers, 0, mainpc.arg)
  /\ UNCHANGED << storeVars, dialogVars, queue >>

\* _cancel_first_worker after worker.wait(200): self._first_worker = None, then on.
OpenAfterWaitFirst ==
  /\ UNCHANGED unitVars
  /\ UNCHANGED << nevents, nloads >>
  /\ mainpc.at = "waitFirst" /\ mainpc.op = "open"
  /\ StartFirstPage(Collect(workers, pager, 0, queue), mainpc.arg)
  /\ UNCHANGED << storeVars, dialogVars, pager, queue >>

\* A Back that puts the visible list of the snapshot back as it was, without
\* filtering the restored books by the filters active now.
BackRestore_asSeen ==
  LET prev == catalogHistory[Len(catalogHistory)] IN
  /\ catalogHistory' = SubSeq(catalogHistory, 1, Len(catalogHistory) - 1)
  /\ books' = prev.books
  /\ serverHeader' = prev.header
  /\ filteredBooks' = prev.visible
  /\ currentCatalogUrl' = prev.url
  /\ breadcrumbs' = prev.crumbs
  /\ mainpc' = Idle
  /\ UNCHANGED << filterNews, filterLib, isLoading, errorText >>

\* A Back that leaves the breadcrumb trail of the abandoned catalog in place.
BackRestore_keepCrumbs ==
  LET prev == catalogHistory[Len(catalogHistory)] IN
  /\ catalogHistory' = SubSeq(catalogHistory, 1, Len(catalogHistory) - 1)
  /\ books' = prev.books
  /\ serverHeader' = prev.header
  /\ filteredBooks' = filterBooks(prev.books, filterNews, filterLib)
  /\ currentCatalogUrl' = prev.url
  /\ mainpc' = Idle
  /\ UNCHANGED << filterNews, filterLib, isLoading, errorText, breadcrumbs >>

\* _navigateBack from the pop on.
BackRestore ==
  LET prev == catalogHistory[Len(catalogHistory)] IN
  /\ catalogHistory' = SubSeq(catalogHistory, 1, Len(catalogHistory) - 1)
  /\ books' = prev.books
  /\ serverHeader' = prev.header
  /\ filteredBooks' = filterBooks(prev.books, filterNews, filterLib)
  /\ currentCatalogUrl' = prev.url
  /\ breadcrumbs' = prev.crumbs
  /\ mainpc' = Idle
  /\ UNCHANGED << filterNews, filterLib, isLoading, errorText >>

\* _navigateBack from _stop_pager on; _first_worker is None by then.
_stop_pager_back(ws) ==
  IF PagerRunning
    THEN /\ StopPagerWait(ws, 0, "back", NoUrl)
         /\ UNCHANGED << storeVars, dialogVars >>
    ELSE /\ workers' = Collect(Dropped(ws, pager, "back"), 0, 0, queue)
         /\ pager' = 0
         /\ queue' = queue
         /\ BackRestore

\* _navigateBack: return on an empty stack, else _cancel_first_worker, ...
_navigateBack ==
  /\ UNCHANGED unitVars
  /\ mainpc = Idle
  /\ catalogHistory # << >>
  /\ Event1
  /\ IF FirstRunning
       THEN /\ workers' = Interrupted(workers, firstWorker, "back")
            /\ mainpc' = At("waitFirst", "back", NoUrl)
            /\ UNCHANGED << firstWorker, pager, queue, storeVars, dialogVars >>
       ELSE /\ firstWorker' = 0
            /\ _stop_pager_back(Dropped(workers, firstWorker, "back"))

BackAfterWaitFirst ==
  /\ UNCHANGED unitVars
  /\ UNCHANGED << nevents, nloads >>
  /\ mainpc.at = "waitFirst" /\ mainpc.op = "back"
  /\ firstWorker' = 0
  /\ _stop_pager_back(workers)

BackAfterWaitPager ==
  /\ UNCHANGED unitVars
  /\ UNCHANGED << nevents, nloads >>
  /\ mainpc.at = "waitPager" /\ mainpc.op = "back"
  /\ pager' = 0
  /\ workers' = Collect(workers, 0, firstWorker, queue)
  /\ BackRestore
  /\ UNCHANGED << firstWorker, queue >>

\* A root load that leaves the breadcrumb trail as it is.
RootLoad_keepCrumbs(arg) ==
  LET virtual_books == IF arg = "ok" THEN VirtualBooks(RootEntries) ELSE << >> IN
  /\ books' = virtual_books
  /\ filteredBooks' = filterBooks(virtual_books, filterNews, filterLib)
  /\ breadcrumbs' = breadcrumbs
  /\ errorText' = IF arg = "ok" THEN "" ELSE "Failed to open the OPDS URL."
  /\ isLoading' = FALSE
  /\ mainpc' = Idle
  /\ UNCHANGED << filterNews, filterLib >>

\* loadSubcatalogs after _stop_pager, and the rest of _loadRootCatalog: arg is
\* "ok" when downloadOpdsRootCatalog returned the root's entries, "failed"
\* when it returned (None, {}).
RootLoad(arg) ==
  LET virtual_books == IF arg = "ok" THEN VirtualBooks(RootEntries) ELSE << >> IN
  /\ books' = virtual_books
  /\ filteredBooks' = filterBooks(virtual_books, filterNews, filterLib)
  /\ breadcrumbs' = << "Root" >>
  /\ errorText' = IF arg = "ok" THEN "" ELSE "Failed to open the OPDS URL."
  /\ isLoading' = FALSE
  /\ mainpc' = Idle
  /\ UNCHANGED << filterNews, filterLib >>

\* _loadRootCatalog up to its processEvents().
LoadRootBegin ==
  /\ isLoading' = TRUE
  /\ mainpc' = At("pe", "root", NoUrl)
  /\ UNCHANGED << storeVars, pager, firstWorker, workers, queue,
                  catalogHistory, currentCatalogUrl, breadcrumbs, errorText >>

\* The URL combo box is activated.
opdsUrlEditorActivated ==
  /\ UNCHANGED unitVars
  /\ mainpc = Idle
  /\ Load1
  /\ LoadRootBegin

\* A Refresh that reopens the current catalog and cuts the breadcrumb trail
\* back to the root.
_refreshCurrentCatalog_reset ==
  /\ UNCHANGED unitVars
  /\ mainpc = Idle
  /\ ~ isLoading
  /\ Load1
  /\ IF currentCatalogUrl # NoUrl
       THEN /\ isLoading' = TRUE
            /\ errorText' = ""
            /\ mainpc' = At("pe", "refresh", currentCatalogUrl)
            /\ breadcrumbs' = << "Root" >>
            /\ UNCHANGED << storeVars, pager, firstWorker, workers, queue,
                            catalogHistory, currentCatalogUrl >>
       ELSE LoadRootBegin

\* The Refresh button, enabled only while nothing is loading: reopen the
\* current catalog (_openCatalog, entered without a push), or reload the root
\* when there is no current url.
_refreshCurrentCatalog ==
  /\ UNCHANGED unitVars
  /\ mainpc = Idle
  /\ ~ isLoading
  /\ Load1
  /\ IF currentCatalogUrl # NoUrl
       THEN /\ isLoading' = TRUE
            /\ errorText' = ""
            /\ mainpc' = At("pe", "refresh", currentCatalogUrl)
            /\ UNCHANGED << storeVars, pager, firstWorker, workers, queue,
                            catalogHistory, currentCatalogUrl, breadcrumbs >>
       ELSE LoadRootBegin

\* The threads started before a root reload, marked.
Superseded(ws) ==
  [w \in Ids |-> IF ws[w].kind # "none" THEN [ws[w] EXCEPT !.stale = TRUE] ELSE ws[w]]

\* _loadRootCatalog after processEvents(): downloadOpdsRootCatalog (synchronous),
\* reset of url and stack, loadSubcatalogs: _stop_pager, then the records.
\* The first-page worker is left alone.
_loadRootCatalog(arg) ==
  /\ UNCHANGED unitVars
  /\ mainpc.at = "pe" /\ mainpc.op = "root"
  /\ UNCHANGED << nevents, nloads >>
  /\ serverHeader' = IF arg = "ok" THEN RootServer ELSE serverHeader
  /\ currentCatalogUrl' = NoUrl
  /\ catalogHistory' = << >>
  /\ firstWorker' = firstWorker
  /\ IF PagerRunning
       THEN /\ StopPagerWait(Superseded(workers), firstWorker, "root", arg)
            /\ UNCHANGED << books, filteredBooks, filterNews, filterLib,
                            breadcrumbs, isLoading, errorText >>
       ELSE /\ workers' = Collect(Dropped(Superseded(workers), pager, "root"),
                                  0, firstWorker, queue)
            /\ pager' = 0
            /\ queue' = queue
            /\ RootLoad(arg)

RootAfterWaitPager ==
  /\ UNCHANGED unitVars
  /\ UNCHANGED << nevents, nloads >>
  /\ mainpc.at = "waitPager" /\ mainpc.op = "root"
  /\ pager' = 0
  /\ workers' = Collect(workers, 0, firstWorker, queue)
  /\ RootLoad(mainpc.arg)
  /\ UNCHANGED << serverHeader, firstWorker, queue, catalogHistory, currentCatalogUrl >>

\* A setter that stores the flag and forgets to call filterBooks().
setFilterBooksThatAreNewspapers_stale(value) ==
  /\ UNCHANGED unitVars
  /\ mainpc = Idle
  /\ IF value # filterNews
       THEN /\ Event1
            /\ filterNews' = value
       ELSE UNCHANGED << filterNews, nevents, nloads >>
  /\ UNCHANGED << books, filteredBooks, filterLib, serverHeader, dialogVars, pager,
                  firstWorker, workers, queue, mainpc >>

\* setHideNewspapers -> setFilterBooksThatAreNewspapers(value)
setFilterBooksThatAreNewspapers(value) ==
  /\ UNCHANGED unitVars
  /\ mainpc = Idle
  /\ IF value # filterNews THEN Event1 ELSE UNCHANGED << nevents, nloads >>
  /\ filterNews' = AfterSetNews(Store, value).fNews
  /\ filteredBooks' = AfterSetNews(Store, value).visible
  /\ UNCHANGED << books, filterLib, serverHeader, dialogVars, pager, firstWorker,
                  workers, queue, mainpc >>

\* setHideBooksAlreadyInLibrary -> setFilterBooksThatAreAlreadyInLibrary(value)
setFilterBooksThatAreAlreadyInLibrary(value) ==
  /\ UNCHANGED unitVars
  /\ mainpc = Idle
  /\ IF value # filterLib THEN Event1 ELSE UNCHANGED << nevents, nloads >>
  /\ filterLib' = AfterSetLib(Store, value).fLib
  /\ filteredBooks' = AfterSetLib(Store, value).visible
  /\ UNCHANGED << books, filterNews, serverHeader, dialogVars, pager, firstWorker,
                  workers, queue, mainpc >>

\* ----------------------------------------------------- queued deliveries
\* The GUI thread takes the next queued delivery between handlers, inside
\* processEvents() and inside the format dialog's exec(); QThread.wait()
\* processes none.
CanDeliver(kind) ==
  /\ mainpc.at \in {"idle", "pe", "dialog"}
  /\ queue # << >>
  /\ Head(queue).kind = kind

\* batchReady -> _append_batch(books)
_append_batch ==
  /\ UNCHANGED unitVars
  /\ UNCHANGED << nevents, nloads >>
  /\ CanDeliver("batch")
  /\ LET url         == Head(queue).url
         books_batch == makeMetadataFromParsedOpds(Feeds[url].entries, url)
         Test(b)     == Accepted(b, filterNews, filterLib)
         accepted    == SelectSeq(books_batch, Test)
     IN  IF accepted = << >>
           THEN UNCHANGED << books, filteredBooks >>
           ELSE /\ books' = books \o books_batch
                /\ filteredBooks' = filteredBooks \o accepted
  /\ queue' = Tail(queue)
  /\ workers' = Collect(workers, pager, firstWorker, Tail(queue))
  /\ UNCHANGED << filterNews, filterLib, serverHeader, dialogVars, pager,
                  firstWorker, mainpc >>

\* feedReady -> handle_feed(feed): _apply_first_page(feed, url), then
\* on_ready().  A next link starts a pager; self._pager is overwritten.
handle_feed ==
  /\ UNCHANGED unitVars
  /\ UNCHANGED << nevents, nloads >>
  /\ CanDeliver("feed")
  /\ LET url      == Head(queue).url
         feed     == Feeds[url]
         bs       == makeMetadataFromParsedOpds(feed.entries, url)
         next_url == findNextUrl(feed.links, url)
         q        == Tail(queue)
         ws       == Collect(workers, IF next_url # NoUrl THEN 0 ELSE pager,
                             firstWorker, q)
     IN  /\ serverHeader' = IF feed.server # "" THEN feed.server ELSE "none"
         /\ books' = bs
         /\ filteredBooks' = filterBooks(bs, filterNews, filterLib)
         /\ queue' = q
         /\ IF next_url # NoUrl
              THEN /\ HasFree(ws)
                   /\ workers' = [ws EXCEPT ![FreeSlot(ws)] = NewWorker("pager", next_url)]
                   /\ pager' = FreeSlot(ws)
              ELSE /\ workers' = ws
                   /\ pager' = pager
  /\ isLoading' = FALSE
  /\ UNCHANGED << filterNews, filterLib, firstWorker, catalogHistory,
                  currentCatalogUrl, breadcrumbs, errorText, mainpc >>

\* An error handler that also empties the list.
on_error_reset ==
  /\ UNCHANGED unitVars
  /\ UNCHANGED << nevents, nloads >>
  /\ CanDeliver("failed")
  /\ isLoading' = FALSE
  /\ errorText' = "Failed to load catalog"
  /\ books' = << >>
  /\ filteredBooks' = << >>
  /\ queue' = Tail(queue)
  /\ workers' = Collect(workers, pager, firstWorker, Tail(queue))
  /\ UNCHANGED << filterNews, filterLib, serverHeader, pager, firstWorker,
                  catalogHistory, currentCatalogUrl, breadcrumbs, mainpc >>

\* failed -> on_error(msg)
on_error ==
  /\ UNCHANGED unitVars
  /\ UNCHANGED << nevents, nloads >>
  /\ CanDeliver("failed")
  /\ isLoading' = FALSE
  /\ errorText' = "Failed to load catalog"
  /\ queue' = Tail(queue)
  /\ workers' = Collect(workers, pager, firstWorker, Tail(queue))
  /\ UNCHANGED << storeVars, pager, firstWorker, catalogHistory,
                  currentCatalogUrl, breadcrumbs, mainpc >>

\* ------------------------------------------------------------ the system
\* The dialog after __init__: filters off, empty stack, the root loaded
\* (_loadRootCatalog(False)), no thread started.
Init ==
  /\ \E arg \in {"ok", "failed"} :
       /\ books = IF arg = "ok" THEN VirtualBooks(RootEntries) ELSE << >>
       /\ serverHeader = IF arg = "ok" THEN RootServer ELSE ""
       /\ errorText = IF arg = "ok" THEN "" ELSE "Failed to open the OPDS URL."
  /\ filteredBooks = books
  /\ filterNews = FALSE
  /\ filterLib = FALSE
  /\ pager = 0
  /\ firstWorker = 0
  /\ workers = [w \in Ids |-> NoWorker]
  /\ queue = << >>
  /\ catalogHistory = << >>
  /\ currentCatalogUrl = NoUrl
  /\ breadcrumbs = << "Root" >>
  /\ isLoading = FALSE
  /\ mainpc = Idle
  /\ nevents = 0
  /\ nloads = 0
  /\ entry = NoEntry
  /\ metadata = NoEntry
  /\ fetch = NoFetch
  /\ check = NoCheck

Next ==
  \/ \E i \in 1..3 : _activateCurrentItem(i)
  \/ SelectFormatDialogClosed
  \/ _openCatalog
  \/ OpenAfterWaitPager
  \/ OpenAfterWaitFirst
  \/ _navigateBack
  \/ BackAfterWaitFirst
  \/ BackAfterWaitPager
  \/ opdsUrlEditorActivated
  \/ _refreshCurrentCatalog
  \/ \E arg \in {"ok", "failed"} : _loadRootCatalog(arg)
  \/ RootAfterWaitPager
  \/ \E value \in BOOLEAN : setFilterBooksThatAreNewspapers(value)
  \/ \E value \in BOOLEAN : setFilterBooksThatAreAlreadyInLibrary(value)
  \/ _append_batch
  \/ handle_feed
  \/ on_error
  \/ \E w \in Ids : Attempt(w)
  \/ \E w \in Ids : FetchFail(w)
  \/ \E w \in Ids : PagerFetched(w)
  \/ \E w \in Ids : PagerFetchedRaising(w)
  \/ \E w \in Ids : FirstFetched(w)
  \/ \E w \in Ids : FirstFetchedMalformed(w)
  \/ \E w \in Ids : FirstEmit(w)

Spec == Init /\ [][Next]_vars

\* ---------------------------------------------- opdsToMetadata on its own
\* The link types opdsToMetadata tells apart: EPUB, another book format, an
\* image, a nested catalog.
LinkTypes == {"application/epub+zip", "application/pdf", "image/png",
              "application/atom+xml;profile=opds-catalog"}

\* Link k of an entry: its href is "u<k>", or missing (link.get('href', '')).
LinkAt(k, type, hasHref) ==
  Link(type, "", IF hasHref THEN "u" \o ToString(k) ELSE NoUrl)

\* The link lists of up to MaxLinks links, and the entries that carry them,
\* with and without a TAGS line.
LinkSeqs ==
  UNION { { [k \in 1..n |-> LinkAt(k, f[k][1], f[k][2])] :
              f \in [1..n -> LinkTypes \X BOOLEAN] } : n \in 0..MaxLinks }
Entries ==
  { Entry("e", summary, links) : summary \in {TagsNone, TagsNews, TagsTwice}, links \in LinkSeqs }

\* The URL of the page the entry came with.
ClassifyBase == "A"

\* The dialog at rest: nothing loaded, no thread.
AtRest ==
  /\ books = << >>
  /\ filteredBooks = << >>
  /\ filterNews = FALSE
  /\ filterLib = FALSE
  /\ serverHeader = ""
  /\ pager = 0
  /\ firstWorker = 0
  /\ workers = [w \in Ids |-> NoWorker]
  /\ queue = << >>
  /\ catalogHistory = << >>
  /\ currentCatalogUrl = NoUrl
  /\ breadcrumbs = << "Root" >>
  /\ isLoading = FALSE
  /\ errorText = ""
  /\ mainpc = Idle
  /\ nevents = 0
  /\ nloads = 0

\* Any entry.
ClassifyInit ==
  /\ entry \in Entries
  /\ metadata = NoEntry
  /\ fetch = NoFetch
  /\ check = NoCheck
  /\ AtRest

\* metadata = self.opdsToMetadata(book, base)
Classify ==
  /\ metadata = NoEntry
  /\ metadata' = opdsToMetadata(entry, ClassifyBase)
  /\ UNCHANGED << programVars, entry, fetch, check >>

ClassifyNext == Classify

ClassifySpec == ClassifyInit /\ [][ClassifyNext]_vars

\* ----------------------------------------- _parse_with_timeout on its own
\* One call with retries = r: attempt is the loop variable, pc the place
\* ("head" of the loop, "inflight" in urlopen, "sleep" in time.sleep(backoff),
\* "returned", "raised"), interrupted what _is_interrupted() answers, raised
\* the exception that left the call.  History: nattempts (requests issued),
\* failures (the exceptions of the failed attempts, in order).
Exceptions == {"URLError", "timeout"}

FetchInit ==
  /\ \E r \in 0..MaxRetries :
       fetch = [retries |-> r, attempt |-> 0, pc |-> "head", interrupted |-> FALSE,
                raised |-> None, nattempts |-> 0, failures |-> << >>]
  /\ entry = NoEntry
  /\ metadata = NoEntry
  /\ check = NoCheck
  /\ AtRest

FetchUnchanged == UNCHANGED << programVars, entry, metadata, check >>

\* requestInterruption() on a thread _is_interrupted() looks at.
FetchInterrupt ==
  /\ fetch.pc \in {"head", "inflight", "sleep"} /\ ~ fetch.interrupted
  /\ fetch' = [fetch EXCEPT !.interrupted = TRUE]
  /\ FetchUnchanged

\* for attempt in range(attempts): if self._is_interrupted(): raise
\* InterruptedError(); else urlopen.
FetchLoopHead ==
  /\ fetch.pc = "head"
  /\ fetch' = IF fetch.interrupted
                THEN [fetch EXCEPT !.pc = "raised", !.raised = "InterruptedError"]
                ELSE [fetch EXCEPT !.pc = "inflight", !.nattempts = @ + 1]
  /\ FetchUnchanged

\* return feedparser.parse(data)
FetchReturns ==
  /\ fetch.pc = "inflight"
  /\ fetch' = [fetch EXCEPT !.pc = "returned"]
  /\ FetchUnchanged

\* except Exception as exc: last_exc = exc; break after the last attempt (and
\* raise last_exc), else time.sleep(backoff).
FetchRaises(exc) ==
  /\ fetch.pc = "inflight"
  /\ fetch' = IF LastAttempt(fetch.attempt, fetch.retries)
                THEN [fetch EXCEPT !.pc = "raised", !.raised = exc,
                                   !.failures = Append(@, exc)]
                ELSE [fetch EXCEPT !.pc = "sleep", !.failures = Append(@, exc)]
  /\ FetchUnchanged

\* time.sleep(backoff) returns: the next turn of the loop.
FetchSleepEnds ==
  /\ fetch.pc = "sleep"
  /\ fetch' = [fetch EXCEPT !.pc = "head", !.attempt = @ + 1]
  /\ FetchUnchanged

FetchNext ==
  \/ FetchInterrupt
  \/ FetchLoopHead
  \/ FetchReturns
  \/ \E exc \in Exceptions : FetchRaises(exc)
  \/ FetchSleepEnds

FetchSpec == FetchInit /\ [][FetchNext]_vars

\* -------------------------------------------- _isBookInLibrary on its own
\* One item object through the store's operations: it is a sub-catalog or
\* not, a newspaper or not, cached is its attribute is_already_in_library;
\* library is how a call of db.has_book for it would end now.  History: asked
\* (calls of db.has_book made for the item), verdicts (what _isBookInLibrary
\* returned, in order).
Answers == {"yes", "no", "raises"}

LibraryInit ==
  /\ \E c \in BOOLEAN, n \in BOOLEAN, a \in Answers :
       check = [catalog |-> c, news |-> n, cached |-> None, library |-> a,
                asked |-> 0, verdicts |-> << >>]
  /\ entry = NoEntry
  /\ metadata = NoEntry
  /\ fetch = NoFetch
  /\ AtRest

LibraryUnchanged == UNCHANGED << programVars, entry, metadata, fetch >>

\* The item after one call of _isBookInLibrary(book).
Checked(c) ==
  LET r == LibraryCheck(c.catalog, c.cached, c.library)
  IN  [c EXCEPT !.cached = r.cached,
                !.asked = IF r.asked THEN @ + 1 ELSE @,
                !.verdicts = Append(@, r.verdict)]

\* A book is added to or removed from the library, or the database begins
\* or ceases to fail.
LibraryChanges(a) ==
  /\ a # check.library
  /\ check' = [check EXCEPT !.library = a]
  /\ LibraryUnchanged

\* filterBooks (after a filter change, a Back, a root load), the item's turn
\* of the loop: self._isBookInLibrary(book), then the test, which asks
\* isFilteredAlreadyInLibrary when the item is not hidden as a newspaper and
\* the library filter is on.
filterBooksItem(fNews, fLib) ==
  /\ Len(check.verdicts) + 2 <= MaxChecks
  /\ check' = IF (~ (fNews /\ check.news)) /\ fLib
                THEN Checked(Checked(check)) ELSE Checked(check)
  /\ LibraryUnchanged

\* _append_batch and _apply_first_page, the item's turn of the comprehension:
\* not isFilteredNews(b) and not isFilteredAlreadyInLibrary(b).
acceptItem(fNews, fLib) ==
  /\ Len(check.verdicts) + 1 <= MaxChecks
  /\ check' = IF (~ (fNews /\ check.news)) /\ fLib THEN Checked(check) ELSE check
  /\ LibraryUnchanged

LibraryNext ==
  \/ \E a \in Answers : LibraryChanges(a)
  \/ \E fNews \in BOOLEAN, fLib \in BOOLEAN : acceptItem(fNews, fLib)
  \/ \E fNews \in BOOLEAN, fLib \in BOOLEAN : filterBooksItem(fNews, fLib)

LibrarySpec == LibraryInit /\ [][LibraryNext]_vars

\* ------------------------------------------------------------- properties
\* The snapshot a Back would restore, and the step that restores it.
Top == catalogHistory[Len(catalogHistory)]
BackDone == Len(catalogHistory') + 1 = Len(catalogHistory) /\ mainpc.op # "root"

\* The deliveries, as steps.
BatchDelivered == CanDeliver("batch") /\ queue' = Tail(queue)
FeedDelivered == CanDeliver("feed") /\ queue' = Tail(queue)
FailedDelivered == CanDeliver("failed") /\ queue' = Tail(queue)

StoreKept == books' = books /\ filteredBooks' = filteredBooks

\* C1: in every reachable state the visible list (filteredBooks) is exactly
\* the order-preserving subsequence of books whose items pass the filters
\* that are active in that state.
C1_VisibleIsFilteredProjection ==
  filteredBooks = filterBooks(books, filterNews, filterLib)

\* A filter is on, a continuation batch has been appended (no first page has
\* more than two entries) and something is hidden.
C1_Witness ==
  /\ filterNews \/ filterLib
  /\ Len(books) > 2
  /\ Len(filteredBooks) < Len(books)

\* C2: once _stop_pager has met a continuation walk (Back, a new load or a
\* root reload), no batch of that walk is applied to the store by
\* _append_batch, even if it had been emitted before.
C2_NoBatchAfterCancel ==
  [][~ (/\ BatchDelivered
        /\ workers[Head(queue).w].cancelled # "no"
        /\ books' # books)]_vars

\* Walks whose batches can still reach the store, and first-page fetches in
\* flight whose result can still be applied.
Reaching ==
  {w \in Ids : workers[w].kind = "pager" /\ isRunning(w) /\ workers[w].connected}
Applicable ==
  {w \in Ids : /\ workers[w].kind = "first"
               /\ \/ isRunning(w) /\ ~ workers[w].interrupted
                  \/ workers[w].pc \in {"emit", "emitBad"}}

\* C3: at any time at most one continuation walk that can still reach the
\* store is running, and at most one first-page fetch whose result can still
\* be applied is in flight.
C3_AtMostOneWalkAndOneFetch ==
  /\ Cardinality(Reaching) <= 1
  /\ Cardinality(Applicable) <= 1

\* C4: the first page of a catalog abandoned by Back (its fetch was met by
\* the _cancel_first_worker of _navigateBack) is never applied afterwards.
C4_NoFirstPageAfterBack ==
  [][~ (FeedDelivered /\ workers[Head(queue).w].cancelled = "back")]_vars

\* C5, as stated: Back yields the visible list exactly as it was immediately
\* before the descent, whatever filter changes happened in between.
C5_BackRestoresVisibleAsSeen ==
  [][BackDone => filteredBooks' = Top.visible]_vars

\* C5, amended: Back restores the books of the snapshot and shows them
\* through the filters active at the time of the Back; the visible list is
\* the one seen before the descent when the filter flags are what they were
\* then.
C5_BackRestoresBooksUnderCurrentFilters ==
  [][BackDone =>
       /\ books' = Top.books
       /\ filteredBooks' = filterBooks(Top.books, filterNews, filterLib)
       /\ (filterNews = Top.fNews /\ filterLib = Top.fLib)
            => filteredBooks' = Top.visible]_vars

\* Back has left sub-catalog B for catalog A while B's first page was still
\* being fetched, a filter is on and hides some of A's restored books.
C5_Witness ==
  /\ mainpc = Idle
  /\ currentCatalogUrl = "A"
  /\ \E w \in Ids : workers[w].url = "B" /\ workers[w].cancelled = "back"
  /\ filterNews \/ filterLib
  /\ Len(filteredBooks) < Len(books)

C7_ContinuationFailureSurfaced ==
  \A w \in Ids :
    workers[w].pageFailed = "URLError" =>
      /\ workers[w].pc = "done"
      /\ \/ errorText # ""
         \/ \E i \in 1..Len(queue) : queue[i].kind = "failed" /\ queue[i].w = w

\* The chains with continuation pages.
Walked == {c \in DOMAIN Chain : Len(Chain[c]) > 1}

\* C8: an uncancelled, failure-free load fetches each page of its chain once,
\* in order, emits one batch per page and ends after the last page: the
\* first-page worker issues one request and emits one feed; a pager that has
\* emitted k batches is at page k + 2 of the chain, has issued one request
\* per emitted batch (and one more while a request is in flight), and has
\* ended exactly when the chain is exhausted, after its n - 1 batches.
C8_EachPageOnce ==
  \A w \in Ids :
    (workers[w].kind # "none" /\ workers[w].cancelled = "no" /\ workers[w].failures = 0) =>
      IF workers[w].kind = "first"
        THEN /\ workers[w].url \in DOMAIN Chain
             /\ workers[w].nfetch = (IF workers[w].pc = "attempt" THEN 0 ELSE 1)
             /\ workers[w].nemit = (IF workers[w].pc = "done" THEN 1 ELSE 0)
        ELSE \E c \in Walked :
               LET n == Len(Chain[c])
                   k == workers[w].nemit
               IN  IF k + 2 <= n
                     THEN /\ workers[w].url = Chain[c][k + 2]
                          /\ workers[w].pc \in {"attempt", "inflight"}
                          /\ workers[w].nfetch =
                               (IF workers[w].pc = "inflight" THEN k + 1 ELSE k)
                     ELSE /\ k = n - 1
                          /\ workers[w].url = NoUrl
                          /\ workers[w].pc \in {"attempt", "done"}
                          /\ workers[w].nfetch = k

\* The walk of the three-page chain has ended, uncancelled and failure-free,
\* after two requests and two batches.
C8_Witness ==
  /\ pager # 0
  /\ workers[pager].kind = "pager" /\ workers[pager].pc = "done"
  /\ workers[pager].cancelled = "no" /\ workers[pager].failures = 0
  /\ workers[pager].nfetch = 2 /\ workers[pager].nemit = 2

\* The page of chain c an entry title belongs to, 0 when none.
PageOf(c, title) ==
  LET Has(k) == \E i \in 1..Len(Feeds[Chain[c][k]].entries) :
                  Feeds[Chain[c][k]].entries[i].title = title
  IN  IF \E k \in 1..Len(Chain[c]) : Has(k)
        THEN CHOOSE k \in 1..Len(Chain[c]) : Has(k)
        ELSE 0

\* C9: batches are applied in page order and none twice: in books, the
\* entries of an earlier page of the displayed catalog's chain precede those
\* of a later page, and no entry occurs twice.
C9_PageOrder ==
  currentCatalogUrl \in DOMAIN Chain =>
    \A i, j \in 1..Len(books) :
      i < j =>
        /\ books[i].title # books[j].title
        /\ LET p == PageOf(currentCatalogUrl, books[i].title)
               q == PageOf(currentCatalogUrl, books[j].title)
           IN  (p # 0 /\ q # 0) => p <= q

\* C10: after _stop_pager has met a continuation walk, that walk issues no
\* further HTTP request (next page or retry) and emits no further batch.
C10_NoFetchAfterCancel ==
  [][\A w \in Ids :
       (/\ workers[w].kind = "pager"
        /\ workers[w].cancelled # "no"
        /\ workers'[w].cancelled # "no")
         => /\ workers'[w].nfetch = workers[w].nfetch
            /\ workers'[w].nemit = workers[w].nemit]_vars

\* The batch at the head of the queue, and its items that pass the filters.
HeadBatch ==
  makeMetadataFromParsedOpds(Feeds[Head(queue).url].entries, Head(queue).url)
HeadAccepted ==
  LET Test(b) == Accepted(b, filterNews, filterLib) IN SelectSeq(HeadBatch, Test)

\* C11: when _append_batch takes a batch none of whose items passes the
\* filters, books and filteredBooks are unchanged; otherwise exactly the
\* accepted items are appended, in batch order, to both books and
\* filteredBooks, the previous contents stay as a prefix, and filteredBooks
\* does not get shorter.
C11_AppendsAcceptedToBoth ==
  [][BatchDelivered =>
       /\ HeadAccepted = << >> => StoreKept
       /\ HeadAccepted # << >> =>
            /\ books' = books \o HeadAccepted
            /\ filteredBooks' = filteredBooks \o HeadAccepted
       /\ Len(filteredBooks') >= Len(filteredBooks)]_vars

\* C12: a setter called with the value the flag already has changes nothing,
\* and setting a filter is idempotent: on every store, setting
\* hide-newspapers to true twice gives the visible list that setting it once
\* gives, and the second call changes neither books nor the visible list
\* (the same for both flags and both values).
C12_SetFilterIdempotent ==
  /\ AfterSetNews(Store, filterNews) = Store
  /\ AfterSetLib(Store, filterLib) = Store
  /\ \A value \in BOOLEAN :
       /\ AfterSetNews(AfterSetNews(Store, value), value) = AfterSetNews(Store, value)
       /\ AfterSetLib(AfterSetLib(Store, value), value) = AfterSetLib(Store, value)
       /\ AfterSetNews(Store, value).books = books
       /\ AfterSetNews(Store, value).visible = filterBooks(books, value, filterLib)

\* Hide-newspapers has been set on a store that holds a newspaper next to
\* other items: the newspaper is hidden, the others are shown.
C12_Witness ==
  /\ filterNews /\ ~ filterLib
  /\ \E i \in 1..Len(books) : InTags("News", books[i].tags)
  /\ filteredBooks # << >>
  /\ Len(filteredBooks) < Len(books)

\* The sub-catalog items of a list.
IsSubCatalog(b) == b.catalogUrl # NoUrl
SubCatalogsOf(bs) == SelectSeq(bs, IsSubCatalog)

\* C13: a sub-catalog item is never hidden by hide-already-in-library,
\* whatever db.has_book would answer for it: its library check is False
\* without regard to has_book's answer, it passes the library filter, and the
\* visible list holds every sub-catalog item of books (no sub-catalog
\* of the fixture is tagged News) whether the filter is on or off.
C13_SubCatalogNeverHiddenByLibrary ==
  /\ \A i \in 1..Len(books) :
       IsSubCatalog(books[i]) =>
         /\ ~ _isBookInLibrary(books[i])
         /\ ~ isFilteredAlreadyInLibrary(books[i], TRUE)
  /\ SubCatalogsOf(filteredBooks) = SubCatalogsOf(books)
  /\ SubCatalogsOf(filterBooks(books, filterNews, TRUE)) = SubCatalogsOf(books)

\* Hide-already-in-library is on and has hidden a book, while a sub-catalog
\* for which db.has_book would answer True is shown.
C13_Witness ==
  /\ filterLib
  /\ Len(filteredBooks) < Len(books)
  /\ \E i \in 1..Len(filteredBooks) :
       IsSubCatalog(filteredBooks[i]) /\ has_book(filteredBooks[i])

\* The hrefs, in order, of the links of a list whose type is in a set.
RECURSIVE HrefsOfType(_, _)
HrefsOfType(links, types) ==
  IF links = << >> THEN << >>
  ELSE (IF Head(links).type \in types THEN << Head(links).href >> ELSE << >>)
         \o HrefsOfType(Tail(links), types)

\* The types of download links: neither image nor nested catalog.
BookTypes == {t \in LinkTypes : t \notin ImageTypes /\ t \notin AtomTypes}

\* C14: the download links of an entry are all its EPUB links, in the order
\* they were met, followed by all its other non-image, non-atom links in the
\* order they were met.
C14_EpubFirstInDiscoveryOrder ==
  metadata # NoEntry =>
    metadata.links = HrefsOfType(entry.links, {EpubType})
                       \o HrefsOfType(entry.links, BookTypes \ {EpubType})

\* C15: the class of an entry depends on its links only: with a non-image,
\* non-atom link it is a book (download links, no catalogUrl), a nested
\* catalog link notwithstanding; with no such link but an atom link it is a
\* sub-catalog (catalogUrl, no download links); with neither it is a book
\* without download links and without catalogUrl.
C15_ClassByLinks ==
  metadata # NoEntry =>
    LET hasBook == HrefsOfType(entry.links, BookTypes) # << >>
        hasAtom == HrefsOfType(entry.links, AtomTypes) # << >>
    IN  /\ hasBook => (metadata.links # << >> /\ metadata.catalogUrl = NoUrl)
        /\ (~ hasBook /\ hasAtom) =>
             (metadata.links = << >> /\ metadata.catalogUrl # NoUrl)
        /\ (~ hasBook /\ ~ hasAtom) =>
             (metadata.links = << >> /\ metadata.catalogUrl = NoUrl)

\* A descent begins (_activateCurrentItem on a sub-catalog row): the GUI
\* thread enters _openCatalog with a new breadcrumb.
DescentBegins ==
  /\ mainpc = Idle /\ mainpc'.at = "pe" /\ mainpc'.op = "open"
  /\ breadcrumbs' # breadcrumbs

\* C16: the navigation stack is last-in first-out and one-shot: a descent
\* pushes exactly one snapshot, that of the view it leaves; a Back pops the
\* most recent snapshot and restores its books, server header, url and
\* breadcrumb trail; with an empty stack no Back begins; a root reload
\* empties the stack; nothing else changes the stack.
C16_StackLifo ==
  [][/\ DescentBegins => catalogHistory' = Append(catalogHistory, Snapshot)
     /\ BackDone =>
          /\ catalogHistory' = SubSeq(catalogHistory, 1, Len(catalogHistory) - 1)
          /\ books' = Top.books
          /\ serverHeader' = Top.header
          /\ currentCatalogUrl' = Top.url
          /\ breadcrumbs' = Top.crumbs
     /\ catalogHistory = << >> =>
          /\ mainpc'.op # "back"
          /\ \A w \in Ids : workers'[w].cancelled = "back" => workers[w].cancelled = "back"
     /\ (mainpc.op = "root" /\ mainpc' # mainpc) => catalogHistory' = << >>
     /\ catalogHistory' # catalogHistory =>
          (DescentBegins \/ BackDone \/ mainpc.op = "root")]_vars

\* Two descents (root to A, A to B) and one Back: the snapshot of the root is
\* left on the stack and A's view, url and trail are restored.
C16_Witness ==
  /\ mainpc = Idle
  /\ nloads = 2
  /\ Len(catalogHistory) = 1
  /\ catalogHistory[1].url = NoUrl
  /\ currentCatalogUrl = "A"
  /\ breadcrumbs = << "Root", "A" >>
  /\ Len(books) >= 2
  /\ \E w \in Ids : workers[w].url = "B" /\ workers[w].cancelled = "back"

\* C17: a root reload cancels the first-page fetch and the continuation walk
\* in flight, so that once the root list is in the store no result (first
\* page or batch) of a thread started before the reload replaces or extends
\* it.
C17_RootNotOverwrittenByEarlierFetch ==
  [][~ (/\ FeedDelivered \/ BatchDelivered
        /\ workers[Head(queue).w].stale
        /\ books' # books)]_vars

\* C18: a first page whose response is not a parseable feed is a failure of
\* that navigation: its delivery leaves books and filteredBooks as they were
\* and shows an error.
C18_MalformedFirstPageKeepsView ==
  [][(FeedDelivered /\ Head(queue).url = "Bad") =>
       (StoreKept /\ errorText' # "")]_vars

\* The format dialog opens: a book with download links has been activated.
BookActivated == mainpc = Idle /\ mainpc'.at = "dialog"

\* C19: activating a book changes no navigation state: the stack, the
\* breadcrumb trail, the current url, books, filteredBooks, the threads and
\* their queued deliveries are as before; and an activation that begins a
\* load is that of a visible sub-catalog row.
C19_BookActivationChangesNothing ==
  [][/\ BookActivated =>
          UNCHANGED << catalogHistory, breadcrumbs, currentCatalogUrl, books,
                       filteredBooks, serverHeader, pager, firstWorker,
                       workers, queue, isLoading, errorText >>
     /\ DescentBegins =>
          \E i \in 1..Len(filteredBooks) :
            /\ IsSubCatalog(filteredBooks[i])
            /\ mainpc'.arg = filteredBooks[i].catalogUrl
            /\ breadcrumbs' = Append(breadcrumbs, filteredBooks[i].title)]_vars

\* A book of catalog A has been activated while A's continuation walk is
\* running: the format dialog is open, the walk goes on.
C19_Witness ==
  /\ mainpc.at = "dialog"
  /\ currentCatalogUrl = "A"
  /\ Len(catalogHistory) = 1
  /\ PagerRunning

\* A Refresh of a catalog begins, and _openCatalog goes on from it.
RefreshBegins == mainpc = Idle /\ mainpc'.op = "refresh"
RefreshGoesOn == mainpc.op = "refresh" /\ mainpc' # mainpc

C21_NoUncaughtExceptionInWalk ==
  \A w \in Ids : workers[w].kind = "pager" => ~ workers[w].uncaught

\* The items db.has_book raises for.
HasBookRaises(b) == (~ IsSubCatalog(b)) /\ Answer(b) = "raises"

\* C22: an exception of db.has_book does not leave the store's operations:
\* the item counts as not in the library, passes the library filter, and is
\* visible with hide-already-in-library on (unless hidden as a newspaper).
C22_HasBookFailureMeansNotInLibrary ==
  /\ \A i \in 1..Len(books) :
       HasBookRaises(books[i]) =>
         /\ ~ _isBookInLibrary(books[i])
         /\ ~ isFilteredAlreadyInLibrary(books[i], TRUE)
  /\ SelectSeq(filteredBooks, HasBookRaises)
       = SelectSeq(filterBooks(books, filterNews, FALSE), HasBookRaises)

\* Hide-already-in-library is on and hides a book, while a book db.has_book
\* raises for is shown.
C22_Witness ==
  /\ filterLib
  /\ Len(filteredBooks) < Len(books)
  /\ \E i \in 1..Len(filteredBooks) : HasBookRaises(filteredBooks[i])

\* C23: one call of _parse_with_timeout with retries = r issues at most
\* r + 1 requests: a failed request is followed by at most r more, a request
\* that succeeds ends the call at once, and after the last failed request
\* the call raises that request's exception.
C23_AtMostRetriesPlusOneAttempts ==
  fetch # NoFetch =>
    /\ fetch.nattempts <= fetch.retries + 1
    /\ Len(fetch.failures) <= fetch.nattempts
    /\ fetch.pc = "returned" => fetch.nattempts = Len(fetch.failures) + 1
    /\ fetch.pc = "sleep" => Len(fetch.failures) <= fetch.retries
    /\ (fetch.pc = "raised" /\ fetch.raised # "InterruptedError") =>
         /\ fetch.nattempts = fetch.retries + 1
         /\ Len(fetch.failures) = fetch.retries + 1
         /\ fetch.raised = fetch.failures[fetch.retries + 1]
    /\ (Len(fetch.failures) = fetch.retries + 1) => fetch.pc = "raised"

\* A call with retries = 2 has raised the exception of its third request,
\* which differs from that of its second.
C23_Witness ==
  /\ fetch # NoFetch
  /\ fetch.retries = 2 /\ fetch.pc = "raised" /\ fetch.nattempts = 3
  /\ fetch.failures[2] = "URLError" /\ fetch.raised = "timeout"

\* C24: a fetch is cancellable in its retry wait: a thread on which
\* requestInterruption() was called while it waits out the backoff (after a
\* failed attempt) gives the fetch up and issues no further request, also
\* when the model no longer refers to the thread.
C24_NoAttemptAfterInterruptInBackoff ==
  [][\A w \in Ids :
       (/\ workers[w].kind # "none"
        /\ workers[w].pc = "attempt" /\ workers[w].attempt > 0
        /\ workers[w].interrupted)
         => workers'[w].pc # "inflight"]_vars

\* A step of a worker thread: a running thread moves on in run().
WorkerStep ==
  \E w \in Ids : isRunning(w) /\ workers'[w].pc # workers[w].pc

\* C25: the threads never write the store themselves: no step of a worker
\* thread changes books, filteredBooks, the filter flags or the server
\* header (every change of them is a step of the GUI thread); and no batch of
\* a walk that _stop_pager has interrupted and disconnected (detached after
\* the bounded wait when still running) is applied afterwards.
C25_WorkersNeverWriteStore ==
  [][/\ WorkerStep => UNCHANGED storeVars
     /\ BatchDelivered => ~ workers[Head(queue).w].interrupted
     /\ \A w \in Ids :
          (workers[w].kind = "pager" /\ workers[w].interrupted) =>
            \A i \in 1..Len(queue') : ~ (queue'[i].kind = "batch" /\ queue'[i].w = w)]_vars

\* A walk detached by _stop_pager: interrupted, no longer referred to by the
\* model, and still in a request.
C25_Witness ==
  /\ mainpc = Idle
  /\ \E w \in Ids :
       /\ workers[w].kind = "pager" /\ workers[w].interrupted
       /\ workers[w].pc = "inflight"
       /\ pager # w

\* C26: the library verdict is cached per item: through any sequence of
\* filterBooks passes and of acceptance tests on the same item object,
\* whatever happens to the library meanwhile, db.has_book is called at most
\* once for the item (never for a sub-catalog), and every verdict is the
\* first one.
C26_LibraryVerdictCachedPerItem ==
  check # NoCheck =>
    /\ check.asked <= 1
    /\ check.catalog => check.asked = 0
    /\ \A i \in 1..Len(check.verdicts) : check.verdicts[i] = check.verdicts[1]

\* A book was checked three times and found absent, db.has_book was called
\* once, and the library would by now answer that it has the book.
C26_Witness ==
  /\ check # NoCheck
  /\ ~ check.catalog
  /\ Len(check.verdicts) = 3 /\ ~ check.verdicts[3]
  /\ check.asked = 1
  /\ check.library = "yes"

\* The items of the first summary line that begins with "TAGS: ", none when
\* there is no such line.
RECURSIVE FirstTagsLine(_)
FirstTagsLine(lines) ==
  IF lines = << >> THEN << >>
  ELSE IF Head(lines).prefix = "TAGS: " THEN Head(lines).items
  ELSE FirstTagsLine(Tail(lines))

\* C27: the tags of an entry are those of the first summary line that begins
\* with "TAGS: "; later such lines are ignored.
C27_FirstTagsLineWins ==
  metadata # NoEntry => metadata.tags = FirstTagsLine(entry.summary)

\* Every entry of every page of chain c, in page order.
RECURSIVE PagesFrom(_, _)
PagesFrom(c, k) ==
  IF k > Len(Chain[c]) THEN << >>
  ELSE makeMetadataFromParsedOpds(Feeds[Chain[c][k]].entries, Chain[c][k])
         \o PagesFrom(c, k + 1)

\* The walk of the displayed catalog is complete: its pager has fetched and
\* emitted every continuation page without being cancelled and without a
\* failure, every delivery has been applied and the GUI thread is idle.
WalkComplete ==
  /\ mainpc = Idle /\ queue = << >>
  /\ currentCatalogUrl \in DOMAIN Chain
  /\ pager # 0
  /\ workers[pager].kind = "pager" /\ workers[pager].pc = "done"
  /\ workers[pager].cancelled = "no" /\ workers[pager].failures = 0
  /\ workers[pager].nemit = Len(Chain[currentCatalogUrl]) - 1
  /\ \A w \in Ids : workers[w].kind # "none" =>
       workers[w].cancelled = "no" /\ ~ workers[w].stale

\* C28: after the page walk of a catalog has completed without cancellation
\* or failure, books holds every entry of every fetched page in page order,
\* whatever filters were on while the batches arrived.
C28_CompletedWalkHoldsEveryEntry ==
  WalkComplete => books = PagesFrom(currentCatalogUrl, 1)

\* A first-page fetch is in flight: a first-page worker that has not been
\* cancelled is still to emit, or what it emitted is still to be delivered.
FirstPageInFlight ==
  \/ \E w \in Ids : /\ workers[w].kind = "first" /\ workers[w].pc # "done"
                    /\ ~ workers[w].interrupted
  \/ \E i \in 1..Len(queue) : queue[i].kind \in {"feed", "failed"}

\* C29: whenever the GUI thread is idle and no first-page fetch is in flight
\* any more (it succeeded, failed, or was cancelled by Back or by a newer
\* load), _isLoading is false.
C29_NotLoadingWhenNoFetchInFlight ==
  (mainpc = Idle /\ ~ FirstPageInFlight) => ~ isLoading

\* The titles of the items that a load of url yields: the root list for no
\* URL, every page of the chain for a catalog, nothing for any other URL.
TitlesOf(url) ==
  IF url = NoUrl THEN {RootEntries[i].title : i \in 1..Len(RootEntries)}
  ELSE IF url \in DOMAIN Chain
    THEN UNION {{Feeds[Chain[url][k]].entries[i].title :
                   i \in 1..Len(Feeds[Chain[url][k]].entries)} :
                k \in 1..Len(Chain[url])}
  ELSE {}

\* C30: in every snapshot on the stack, the stored items are items loaded
\* from the stored catalog URL (of the root list when the URL is none).
C30_SnapshotItemsBelongToItsUrl ==
  \A n \in 1..Len(catalogHistory) :
    \A i \in 1..Len(catalogHistory[n].books) :
      catalogHistory[n].books[i].title \in TitlesOf(catalogHistory[n].url)

\* The GUI thread is where it takes events: in the event loop, in a
\* processEvents() or in the format dialog's exec().
TakesEvents == mainpc.at \in {"idle", "pe", "dialog"}

\* C31: whenever the GUI thread takes events, the breadcrumb trail has
\* exactly one more element than the navigation stack, through descents,
\* Backs, refreshes, root reloads and failed loads.
C31_TrailOneLongerThanStack ==
  TakesEvents => Len(breadcrumbs) = Len(catalogHistory) + 1

\* Two descents deep, and the load of the second catalog has failed.
C31_Witness ==
  /\ mainpc = Idle
  /\ Len(catalogHistory) = 2 /\ Len(breadcrumbs) = 3
  /\ errorText # ""

\* C32: whenever the GUI thread takes events, the current catalog URL is
\* unset exactly when the navigation stack is empty.
C32_UrlUnsetIffStackEmpty ==
  TakesEvents => ((currentCatalogUrl = NoUrl) = (catalogHistory = << >>))

====
